---- MODULE Spec2Model ----
(***************************************************************************)
(* Model of mexFunction in                                                 *)
(*   src/Classes/Controllers/mex/TcpLikeControllers/                       *)
(*       mex_FiniteHorizonTrackingController.cpp                           *)
(* the backward (Riccati-like) recursion that computes the mode-dependent  *)
(* gains L and feedforward terms of the finite-horizon tracking controller *)
(* of a Markov jump linear system.                                         *)
(*                                                                         *)
(* Numbers are exact rationals <<num, den>> (den > 0, lowest terms), so    *)
(* the model follows the algebra of the code and not its rounding.         *)
(* Matrices are sequences of rows, cubes are sequences of slices (one per  *)
(* mode).  Modes are numbered 1..numModes here (0..numModes-1 in the C++), *)
(* stages and the columns of refWeightings keep the 0-based numbering of   *)
(* the source.  Armadillo is taken in its default build, in which every    *)
(* size mismatch raises an exception that ends the call.                   *)
(***************************************************************************)
EXTENDS Integers, Sequences, FiniteSets, TLC

\* ------------------------------------------------------------------ bounds
\* Largest state dimension, input dimension and number of modes explored.
MaxDim == 2
\* Longest horizon explored.
MaxHorizon == 2

\* --------------------------------------------------------------- rationals
Abs(a) == IF a < 0 THEN -a ELSE a

RECURSIVE GCD(_, _)
GCD(a, b) == IF b = 0 THEN a ELSE GCD(b, a % b)

\* The rational a/b (b # 0) in lowest terms with a positive denominator.
RNorm(a, b) ==
    LET g == GCD(Abs(a), Abs(b))
        s == IF b < 0 THEN -1 ELSE 1
    IN  << (s * a) \div g, (s * b) \div g >>

Rat(a) == << a, 1 >>
RZero == << 0, 1 >>
ROne == << 1, 1 >>
\* Sums and products cancel common factors before they multiply, which keeps
\* the intermediate integers small.
RAdd(x, y) ==
    IF x[1] = 0 THEN y ELSE IF y[1] = 0 THEN x
    ELSE LET g == GCD(x[2], y[2])
         IN  RNorm(x[1] * (y[2] \div g) + y[1] * (x[2] \div g), (x[2] \div g) * y[2])
RNeg(x) == << -x[1], x[2] >>
RSub(x, y) == RAdd(x, RNeg(y))
RMul(x, y) ==
    IF x[1] = 0 \/ y[1] = 0 THEN RZero
    ELSE LET g1 == GCD(Abs(x[1]), y[2])
             g2 == GCD(Abs(y[1]), x[2])
         IN  << (x[1] \div g1) * (y[1] \div g2), (x[2] \div g2) * (y[2] \div g1) >>
\* x / y, y # 0
RDiv(x, y) == RMul(x, IF y[1] < 0 THEN << -y[2], -y[1] >> ELSE << y[2], y[1] >>)

RECURSIVE RSum(_, _)
\* f[1] + ... + f[n]
RSum(f, n) == IF n = 0 THEN RZero ELSE RAdd(RSum(f, n - 1), f[n])

\* ---------------------------------------------------------------- matrices
\* The sequence f as an evaluated tuple (TLC would otherwise keep it as an
\* unevaluated function and compute every entry again at each use).
Tup(f) == f \o << >>

Rows(X) == Len(X)
Cols(X) == IF Len(X) = 0 THEN 0 ELSE Len(X[1])
SameSize(X, Y) == Rows(X) = Rows(Y) /\ Cols(X) = Cols(Y)

\* zeros<dmat>(r, c)
ZeroMat(r, c) == Tup([a \in 1..r |-> Tup([b \in 1..c |-> RZero])])
\* zeros<dcolvec>(n)
ZeroVec(n) == Tup([a \in 1..n |-> RZero])
Eye(d) == Tup([a \in 1..d |-> Tup([b \in 1..d |-> IF a = b THEN ROne ELSE RZero])])

\* X.t()
Transpose(X) == Tup([a \in 1..Cols(X) |-> Tup([b \in 1..Rows(X) |-> X[b][a]])])
MatAdd(X, Y) ==
    Tup([a \in 1..Rows(X) |-> Tup([b \in 1..Cols(X) |-> RAdd(X[a][b], Y[a][b])])])
MatSub(X, Y) ==
    Tup([a \in 1..Rows(X) |-> Tup([b \in 1..Cols(X) |-> RSub(X[a][b], Y[a][b])])])
MatScale(s, X) ==
    Tup([a \in 1..Rows(X) |-> Tup([b \in 1..Cols(X) |-> RMul(s, X[a][b])])])
MatNeg(X) == Tup([a \in 1..Rows(X) |-> Tup([b \in 1..Cols(X) |-> RNeg(X[a][b])])])
MatMul(X, Y) ==
    Tup([a \in 1..Rows(X) |-> Tup([b \in 1..Cols(Y) |->
        RSum([t \in 1..Cols(X) |-> RMul(X[a][t], Y[t][b])], Cols(X))])])
MatVec(X, v) ==
    Tup([a \in 1..Rows(X) |->
        RSum([t \in 1..Cols(X) |-> RMul(X[a][t], v[t])], Cols(X))])
VecAdd(u, v) == Tup([a \in 1..Len(u) |-> RAdd(u[a], v[a])])
VecSub(u, v) == Tup([a \in 1..Len(u) |-> RSub(u[a], v[a])])
VecScale(s, v) == Tup([a \in 1..Len(v) |-> RMul(s, v[a])])
Trace(X) == RSum([t \in 1..Rows(X) |-> X[t][t]], Rows(X))
IsSymmetric(X) == \A a \in 1..Rows(X) : \A b \in 1..Cols(X) : X[a][b] = X[b][a]

\* X.col(c0), c0 counted from 0 as in the source
ColAt(X, c0) == Tup([a \in 1..Rows(X) |-> X[a][c0 + 1]])
\* X.col(c0) = v
SetCol(X, c0, v) ==
    Tup([a \in 1..Rows(X) |->
        Tup([b \in 1..Cols(X) |-> IF b = c0 + 1 THEN v[a] ELSE X[a][b]])])

\* arma::symmatu: the upper triangle reflected into the lower triangle.
symmatu(X) ==
    Tup([a \in 1..Rows(X) |->
        Tup([b \in 1..Cols(X) |-> IF a <= b THEN X[a][b] ELSE X[b][a]])])

\* The first row r >= a of Mx with a nonzero entry in column c, or 0.
RECURSIVE PivotRow(_, _, _)
PivotRow(Mx, c, a) ==
    IF a > Rows(Mx) THEN 0
    ELSE IF Mx[a][c] # RZero THEN a ELSE PivotRow(Mx, c, a + 1)

\* One step of Gauss-Jordan elimination: row p becomes row c, is divided by
\* its pivot, and column c is cleared from every other row.
Eliminate(Mx, c, p) ==
    LET S == Tup([a \in 1..Rows(Mx) |->
                 IF a = c THEN Mx[p] ELSE IF a = p THEN Mx[c] ELSE Mx[a]])
        rowc == Tup([b \in 1..Cols(S) |-> RDiv(S[c][b], S[c][c])])
    IN  Tup([a \in 1..Rows(S) |->
            IF a = c THEN rowc
            ELSE Tup([b \in 1..Cols(S) |-> RSub(S[a][b], RMul(S[a][c], rowc[b]))])])

\* Gauss-Jordan elimination of columns c.. of Mx; << >> when a pivot is missing.
RECURSIVE GaussJordan(_, _)
GaussJordan(Mx, c) ==
    IF c > Rows(Mx) THEN Mx
    ELSE LET p == PivotRow(Mx, c, c)
         IN  IF p = 0 THEN << >> ELSE GaussJordan(Eliminate(Mx, c, p), c + 1)

\* The inverse of the square matrix X, or << >> when X is singular.
Inverse(X) ==
    LET d == Rows(X)
        R == GaussJordan(Tup([a \in 1..d |-> X[a] \o Eye(d)[a]]), 1)
    IN  IF R = << >> THEN << >> ELSE Tup([a \in 1..d |-> SubSeq(R[a], d + 1, 2 * d)])

\* The Faddeev-LeVerrier sequence of G: FL(G, t) = <<M_t, c_t>> with
\* M_1 = I, M_(t+1) = G*M_t + c_t*I and c_t = -tr(G*M_t)/t, the coefficients
\* of the characteristic polynomial of G.
RECURSIVE FL(_, _)
FL(G, t) ==
    LET d == Rows(G)
        Mt == IF t = 1 THEN Eye(d)
              ELSE LET q == FL(G, t - 1)
                   IN  MatAdd(MatMul(G, q[1]), MatScale(q[2], Eye(d)))
    IN  << Mt, RDiv(RNeg(Trace(MatMul(G, Mt))), Rat(t)) >>

RECURSIVE RankFrom(_, _)
\* The largest t <= d with c_t # 0: the rank of G = X'X, which is that of X.
RankFrom(G, t) == IF t = 0 THEN 0
                  ELSE IF FL(G, t)[2] # RZero THEN t ELSE RankFrom(G, t - 1)

\* The entries of X, row after row.
Flatten(X) ==
    Tup([t \in 1..(Rows(X) * Cols(X)) |->
        X[((t - 1) \div Cols(X)) + 1][((t - 1) % Cols(X)) + 1]])

RECURSIVE DenLcm(_, _)
\* The least common multiple of the denominators of f[1..n].
DenLcm(f, n) ==
    IF n = 0 THEN 1
    ELSE LET l == DenLcm(f, n - 1) IN (l \div GCD(l, f[n][2])) * f[n][2]

RECURSIVE NumGcd(_, _, _)
\* The greatest common divisor of the integers f[1..n] * D.
NumGcd(f, n, D) ==
    IF n = 0 THEN 0
    ELSE GCD(NumGcd(f, n - 1, D), Abs(f[n][1] * (D \div f[n][2])))

\* The Moore-Penrose pseudo-inverse of an integer matrix Z (Decell's formula):
\* Z+ = -(1/c_r) * M_r * Z' with r the rank of Z.
DecellInt(Z) ==
    LET G == MatMul(Transpose(Z), Z)
        r == RankFrom(G, Rows(G))
        q == FL(G, r)
    IN  MatScale(RDiv(Rat(-1), q[2]), MatMul(q[1], Transpose(Z)))

\* The Moore-Penrose pseudo-inverse of a matrix that has no inverse: the zero
\* matrix for X = 0, and otherwise, with X = (g/D) * Z for the primitive
\* integer matrix Z, X+ = (D/g) * Z+.
Decell(X) ==
    LET f == Flatten(X)
        D == DenLcm(f, Len(f))
        g == NumGcd(f, Len(f), D)
    IN  IF g = 0 THEN ZeroMat(Cols(X), Rows(X))
        ELSE MatScale(RNorm(D, g), DecellInt(MatScale(RNorm(D, g), X)))

\* A variant of pinv that has no pseudo-inverse for a singular matrix and
\* returns the identity for it.
pinv_NoSingularCase(X) ==
    IF Rows(X) = Cols(X) /\ Inverse(X) # << >> THEN Inverse(X) ELSE Eye(Rows(X))

\* arma::pinv: the Moore-Penrose pseudo-inverse, which is the inverse of an
\* invertible matrix.  (Exact: the singular-value cutoff of the library only
\* matters for matrices that rounding makes nearly singular.)
pinv(X) ==
    IF Rows(X) = Cols(X) /\ Inverse(X) # << >> THEN Inverse(X) ELSE Decell(X)

\* ------------------------------------------------------------------- state
VARIABLES
    \* the inputs of the call (inputArrays[0..6] and [8]; Qref is read but unused)
    augA, augB, augQ, augR, transitionMatrix, terminalK, horizonLength, refWeightings,
    \* control: position in mexFunction, loop counters, the exception raised
    pc, err, k, i, j,
    \* the value-function state and the locals of one stage
    K_k, sigma_k, K_prev, sigma_prev, QAKA, RBKB, BKA, Asigma, Bsigma,
    \* the outputs: outputArrays[0] (gains) and [1] (feedforward), by stage and mode,
    \* and the element offsets of the two write pointers into them
    allocated, outputL, outputFeedforward, dstL, dstFeedforward,
    \* history: the (stage slot, mode) of every cell written, in order
    writeLog,
    \* the host: which call this is, and the arrays the previous call returned
    call, prevL, prevFeedforward

inputs == << augA, augB, augQ, augR, transitionMatrix, terminalK >>
locals == << K_prev, sigma_prev, QAKA, RBKB, BKA, Asigma, Bsigma >>
vars == << augA, augB, augQ, augR, transitionMatrix, terminalK, horizonLength,
           refWeightings, pc, err, k, i, j, K_k, sigma_k, K_prev, sigma_prev, QAKA,
           RBKB, BKA, Asigma, Bsigma, allocated, outputL, outputFeedforward, dstL,
           dstFeedforward, writeLog, call, prevL, prevFeedforward >>

\* A cell of mxCreateUninitNumericArray's memory that was never written, and a
\* local that is not in scope.
Uninit == << >>

\* const uword numModes = augA.n_slices
numModes == Len(augA)
\* augA.n_rows, augB.n_cols, augR.n_rows
nA == Rows(augA[1])
pB == Cols(augB[1])
pR == Rows(augR[1])
\* elements of one stage of each output array
LStride == pR * nA * numModes
FStride == pR * numModes

\* ------------------------------------------------------------------ inputs
Dims == 1..MaxDim
ExtraCols == {0, 1}
UpperOnes(d) == Tup([a \in 1..d |-> Tup([b \in 1..d |-> IF a <= b THEN ROne ELSE RZero])])
\* the first input channel drives the first state, the others are decoupled
UnitMat(r, c) ==
    Tup([a \in 1..r |-> Tup([b \in 1..c |-> IF a = 1 /\ b = 1 THEN ROne ELSE RZero])])
\* ones on the anti-diagonal: symmetric, with a zero in the corner for d >= 2
AntiEye(d) ==
    Tup([a \in 1..d |-> Tup([b \in 1..d |-> IF a + b = d + 1 THEN ROne ELSE RZero])])
ConstCube(X, M) == Tup([m \in 1..M |-> X])
AltCube(X, Y, M) == Tup([m \in 1..M |-> IF m % 2 = 1 THEN X ELSE Y])
Uniform(M) == Tup([a \in 1..M |-> Tup([b \in 1..M |-> RNorm(1, M)])])
\* column c (from 0) of the reference sequence holds c+1 in every row
RefSeq(n, cols) == Tup([a \in 1..n |-> Tup([b \in 1..cols |-> Rat(b)])])

CubesA(n, M) == { ConstCube(Eye(n), M), AltCube(Eye(n), UpperOnes(n), M) }
CubesB(n, p, M) == { ConstCube(UnitMat(n, p), M), AltCube(ZeroMat(n, p), UnitMat(n, p), M) }
CubesQ(n, M) == { ConstCube(Eye(n), M), ConstCube(UpperOnes(n), M) }
CubesR(p, M) == { ConstCube(Eye(p), M), ConstCube(ZeroMat(p, p), M) }
Transitions(M) == { Eye(M), Uniform(M) }
Terminals(n) == { Eye(n), UpperOnes(n), AntiEye(n) }

\* The state at the entry of mexFunction, call c, with the given inputs.
Entry(a, b, q, r, t, tk, N, ref, c) ==
    /\ augA = a /\ augB = b /\ augQ = q /\ augR = r
    /\ transitionMatrix = t /\ terminalK = tk
    /\ horizonLength = N /\ refWeightings = ref
    /\ pc = "start" /\ err = "" /\ k = 0 /\ i = 0 /\ j = 0
    /\ K_k = Uninit /\ sigma_k = Uninit
    /\ K_prev = Uninit /\ sigma_prev = Uninit /\ QAKA = Uninit /\ RBKB = Uninit
    /\ BKA = Uninit /\ Asigma = Uninit /\ Bsigma = Uninit
    /\ allocated = FALSE /\ outputL = Uninit /\ outputFeedforward = Uninit
    /\ dstL = 0 /\ dstFeedforward = 0
    /\ writeLog = << >>
    /\ call = c /\ prevL = Uninit /\ prevFeedforward = Uninit

\* The preconditions of the contract (spec 4.1).
Precondition ==
    /\ numModes >= 1
    /\ Len(augB) = numModes /\ Len(augQ) = numModes /\ Len(augR) = numModes
    /\ \A m \in 1..numModes :
          /\ Rows(augA[m]) = nA /\ Cols(augA[m]) = nA
          /\ Rows(augQ[m]) = nA /\ Cols(augQ[m]) = nA
          /\ Rows(augB[m]) = nA /\ Cols(augB[m]) = pB
          /\ Rows(augR[m]) = pB /\ Cols(augR[m]) = pB
    /\ Rows(transitionMatrix) = numModes /\ Cols(transitionMatrix) = numModes
    /\ Rows(terminalK) = nA /\ Cols(terminalK) = nA
    /\ Rows(refWeightings) = nA /\ Cols(refWeightings) >= horizonLength + 1
    /\ horizonLength >= 1

\* Inputs that satisfy the preconditions.
Init ==
    \E n \in Dims, p \in Dims, M \in Dims, N \in 1..MaxHorizon, extra \in ExtraCols :
      \E a \in CubesA(n, M), b \in CubesB(n, p, M), q \in CubesQ(n, M),
         r \in CubesR(p, M), t \in Transitions(M), tk \in Terminals(n) :
        Entry(a, b, q, r, t, tk, N, RefSeq(n, N + 1 + extra), 1)

\* Inputs of any shape: R need not match B, the transition matrix may be larger
\* than numModes x numModes, the horizon may be 0, the reference may be short.
InitAnyShape ==
    \E n \in Dims, p \in Dims, q \in Dims, M \in Dims, N \in 0..MaxHorizon :
      \E tN \in {M, M + 1}, cols \in 1..(N + 2) :
        Entry(ConstCube(Eye(n), M), ConstCube(UnitMat(n, p), M), ConstCube(Eye(n), M),
              ConstCube(Eye(q), M), Eye(tN), Eye(n), N, RefSeq(n, cols), 1)

\* ----------------------------------------------------------------- actions
Raise(msg) == /\ pc' = "error" /\ err' = msg

\* Lines 47-52: the two output arrays are created, uninitialised, with
\* horizonLength stages of numModes cells each.
Alloc ==
    /\ pc = "start"
    /\ allocated' = TRUE
    /\ outputL' = [s \in 0..(horizonLength - 1) |-> [m \in 1..numModes |-> Uninit]]
    /\ outputFeedforward' =
           [s \in 0..(horizonLength - 1) |-> [m \in 1..numModes |-> Uninit]]
    /\ pc' = "init"
    /\ UNCHANGED << inputs, horizonLength, refWeightings, err, k, i, j, K_k, sigma_k,
                    locals, dstL, dstFeedforward, writeLog, call, prevL,
                    prevFeedforward >>

\* Lines 53-58: the host could not provide an output array.
AllocFail ==
    /\ pc = "start"
    /\ Raise("Allocation of output array failed")
    /\ UNCHANGED << inputs, horizonLength, refWeightings, k, i, j, K_k, sigma_k,
                    locals, allocated, outputL, outputFeedforward, dstL,
                    dstFeedforward, writeLog, call, prevL, prevFeedforward >>

\* A variant of line 66 that takes the column with index horizonLength
\* (from 0) in place of the last one.
TerminalSigma_ColumnN ==
    Tup([a \in 1..Rows(refWeightings) |->
        Tup([m \in 1..numModes |-> refWeightings[a][horizonLength + 1]])])

\* Line 66: sigma_k.each_col() = refWeightings.tail_cols(1)
TerminalSigma ==
    Tup([a \in 1..Rows(refWeightings) |->
        Tup([m \in 1..numModes |-> refWeightings[a][Cols(refWeightings)]])])

\* A variant of lines 69, 72 that starts one stage past the end of the array.
LastStageOffset_PastEnd(stride) == horizonLength * stride

\* Lines 69, 72: the offset of the last stage in an output array whose stages
\* hold stride elements each.
LastStageOffset(stride) == (horizonLength - 1) * stride

\* Lines 60-74: K_N and sigma_N, the write pointers on the last stage, k = N-1.
InitValueFunction ==
    /\ pc = "init"
    /\ IF SameSize(terminalK, augA[1])
       THEN /\ K_k' = Tup([m \in 1..numModes |-> terminalK])
            /\ sigma_k' = TerminalSigma
            /\ dstL' = LastStageOffset(LStride)
            /\ dstFeedforward' = LastStageOffset(FStride)
            /\ k' = horizonLength - 1
            /\ pc' = IF horizonLength - 1 >= 0 THEN "stage" ELSE "done"
            /\ err' = err
       ELSE /\ Raise("each_slice(): incompatible size")
            /\ UNCHANGED << K_k, sigma_k, dstL, dstFeedforward, k >>
    /\ UNCHANGED << inputs, horizonLength, refWeightings, i, j, locals, allocated,
                    outputL, outputFeedforward, writeLog, call, prevL,
                    prevFeedforward >>

\* Lines 78-85: the snapshot of the value-function state and the fresh locals.
StageBegin ==
    /\ pc = "stage"
    /\ K_prev' = K_k
    /\ sigma_prev' = sigma_k
    /\ QAKA' = augQ
    /\ RBKB' = augR
    /\ BKA' = Tup([m \in 1..numModes |-> ZeroMat(pB, nA)])
    /\ Asigma' = ZeroMat(Cols(augA[1]), numModes)
    /\ Bsigma' = ZeroMat(pB, numModes)
    /\ i' = 0
    /\ pc' = "inter"
    /\ UNCHANGED << inputs, horizonLength, refWeightings, err, k, j, K_k, sigma_k,
                    allocated, outputL, outputFeedforward, dstL, dstFeedforward,
                    writeLog, call, prevL, prevFeedforward >>

\* Line 88, 89: the quadratic terms of mode m, made symmetric.
AKA(m) == symmatu(MatMul(MatMul(Transpose(augA[m]), K_prev[m]), augA[m]))
BKB(m) == symmatu(MatMul(MatMul(Transpose(augB[m]), K_prev[m]), augB[m]))

\* Lines 87-93, one iteration (mode i+1), and lines 95-96 after the last one.
Intermediate ==
    /\ pc = "inter"
    /\ LET m == i + 1 IN
       IF ~SameSize(QAKA[m], AKA(m))
       THEN /\ Raise("addition: incompatible matrix dimensions (line 88)")
            /\ UNCHANGED << QAKA, RBKB, BKA, Asigma, Bsigma, i, j >>
       ELSE IF ~SameSize(RBKB[m], BKB(m))
       THEN /\ Raise("addition: incompatible matrix dimensions (line 89)")
            /\ QAKA' = [QAKA EXCEPT ![m] = MatAdd(@, AKA(m))]
            /\ UNCHANGED << RBKB, BKA, Asigma, Bsigma, i, j >>
       ELSE /\ QAKA' = [QAKA EXCEPT ![m] = MatAdd(@, AKA(m))]
            /\ RBKB' = [RBKB EXCEPT ![m] = MatAdd(@, BKB(m))]
            /\ BKA' = [BKA EXCEPT ![m] =
                          MatMul(MatMul(Transpose(augB[m]), K_prev[m]), augA[m])]
            /\ Asigma' = SetCol(Asigma, i, MatVec(Transpose(augA[m]), ColAt(sigma_prev, i)))
            /\ Bsigma' = SetCol(Bsigma, i, MatVec(Transpose(augB[m]), ColAt(sigma_prev, i)))
            /\ i' = i + 1
            /\ j' = 0
            /\ pc' = IF i + 1 < numModes THEN "inter" ELSE "mix"
            /\ err' = err
    /\ UNCHANGED << inputs, horizonLength, refWeightings, k, K_k, sigma_k, K_prev,
                    sigma_prev, allocated, outputL, outputFeedforward, dstL,
                    dstFeedforward, writeLog, call, prevL, prevFeedforward >>

RECURSIVE MixMat(_, _, _, _)
\* Lines 107-110: acc + row[1]*cube[1] + ... + row[n]*cube[n]
MixMat(row, cube, n, acc) ==
    IF n = 0 THEN acc
    ELSE MatAdd(MixMat(row, cube, n - 1, acc), MatScale(row[n], cube[n]))

RECURSIVE MixCol(_, _, _, _)
\* Lines 111-112: acc + row[1]*X.col(0) + ... + row[n]*X.col(n-1)
MixCol(row, X, n, acc) ==
    IF n = 0 THEN acc
    ELSE VecAdd(MixCol(row, X, n - 1, acc), VecScale(row[n], ColAt(X, n - 1)))

\* A variant of line 108 that reads the value-function state being updated,
\* K_k, in place of the intermediate built from the snapshot K_prev.
MixP1_Live(m) ==
    MixMat(transitionMatrix[m],
           Tup([x \in 1..numModes |->
               MatAdd(augQ[x],
                      symmatu(MatMul(MatMul(Transpose(augA[x]), K_k[x]), augA[x])))]),
           numModes, ZeroMat(nA, Cols(augA[1])))

\* Lines 101-113 for the current mode m: the mixtures over the next modes.
MixP1(m) == MixMat(transitionMatrix[m], QAKA, numModes, ZeroMat(nA, Cols(augA[1])))
MixP2(m) == MixMat(transitionMatrix[m], BKA, numModes, ZeroMat(pB, nA))
MixP3(m) == MixMat(transitionMatrix[m], RBKB, numModes, ZeroMat(pR, Cols(augR[1])))
\* Lines 104, 105: s1 and s2 are created with the number of COLUMNS of Asigma
\* and Bsigma, which is numModes.
S1Zero == ZeroVec(Cols(Asigma))
S2Zero == ZeroVec(Cols(Bsigma))
MixS1(m) == MixCol(transitionMatrix[m], Asigma, numModes, S1Zero)
MixS2(m) == MixCol(transitionMatrix[m], Bsigma, numModes, S2Zero)

\* Lines 99, 107-112: the row of the transition matrix exists and every
\* accumulation adds operands of equal size.
AccumulateOK(m) ==
    /\ m <= Rows(transitionMatrix) /\ numModes <= Cols(transitionMatrix)
    /\ Len(S1Zero) = Rows(Asigma)
    /\ Len(S2Zero) = Rows(Bsigma)

\* A variant of line 116 without the sign.
NewGain_Unsigned(m) == MatMul(pinv(MixP3(m)), MixP2(m))

\* Line 114
NewK(m) ==
    MatSub(MixP1(m),
           symmatu(MatMul(MatMul(Transpose(MixP2(m)), pinv(MixP3(m))), MixP2(m))))
\* Line 115
NewSigma(m) ==
    VecSub(VecAdd(ColAt(refWeightings, k), MixS1(m)),
           MatVec(MatMul(Transpose(MixP2(m)), pinv(MixP3(m))), MixS2(m)))
\* Line 116
NewGain(m) == MatNeg(MatMul(pinv(MixP3(m)), MixP2(m)))
\* Line 117
NewFeedforward(m) == MatVec(pinv(MixP3(m)), MixS2(m))

\* A variant of lines 95, 96 that counts the stages from the other end of the
\* array, so that the first stage computed lands in the first slot.
SlotL_Forward == (horizonLength - 1) - (dstL \div LStride)

\* Lines 95, 96: the stage of the output arrays that the views at dstL and
\* dstFeedforward cover.
SlotL == dstL \div LStride
SlotF == dstFeedforward \div FStride
WriteCell(out, slot, m, val) ==
    IF slot \in DOMAIN out THEN [out EXCEPT ![slot][m] = val] ELSE out

\* Lines 98-118, one iteration (current mode j+1), and after the last one the
\* loop step of lines 74-76.
UpdateMode ==
    /\ pc = "mix"
    /\ LET m == j + 1 IN
       IF ~AccumulateOK(m)
       THEN /\ Raise("addition: incompatible matrix dimensions (line 111)")
            /\ UNCHANGED << K_k, sigma_k, outputL, outputFeedforward, writeLog, j, k,
                            dstL, dstFeedforward >>
       ELSE IF ~(k < Cols(refWeightings))
       THEN /\ Raise("Mat::col(): index out of bounds (line 115)")
            /\ K_k' = [K_k EXCEPT ![m] = NewK(m)]
            /\ UNCHANGED << sigma_k, outputL, outputFeedforward, writeLog, j, k,
                            dstL, dstFeedforward >>
       ELSE /\ K_k' = [K_k EXCEPT ![m] = NewK(m)]
            /\ sigma_k' = SetCol(sigma_k, j, NewSigma(m))
            /\ outputL' = WriteCell(outputL, SlotL, m, NewGain(m))
            /\ outputFeedforward' = WriteCell(outputFeedforward, SlotF, m, NewFeedforward(m))
            /\ writeLog' = Append(writeLog, << SlotL, SlotF, m >>)
            /\ j' = j + 1
            /\ IF j + 1 < numModes
               THEN /\ pc' = pc
                    /\ UNCHANGED << k, dstL, dstFeedforward >>
               ELSE /\ k' = k - 1
                    /\ dstL' = dstL - LStride
                    /\ dstFeedforward' = dstFeedforward - FStride
                    /\ pc' = IF k - 1 >= 0 THEN "stage" ELSE "done"
            /\ err' = err
    /\ UNCHANGED << inputs, horizonLength, refWeightings, i, locals, allocated, call,
                    prevL, prevFeedforward >>

\* The host keeps the returned arrays and solves the same system again with the
\* horizon one stage longer and the reference sequence one column longer at the
\* front (the same reference tail and terminal column).
Resolve ==
    /\ pc = "done" /\ call = 1 /\ horizonLength < MaxHorizon
    /\ call' = 2
    /\ prevL' = outputL
    /\ prevFeedforward' = outputFeedforward
    /\ horizonLength' = horizonLength + 1
    /\ refWeightings' =
           Tup([a \in 1..Rows(refWeightings) |-> << RZero >> \o refWeightings[a]])
    /\ pc' = "start"
    /\ k' = 0 /\ i' = 0 /\ j' = 0
    /\ K_k' = Uninit /\ sigma_k' = Uninit
    /\ K_prev' = Uninit /\ sigma_prev' = Uninit /\ QAKA' = Uninit /\ RBKB' = Uninit
    /\ BKA' = Uninit /\ Asigma' = Uninit /\ Bsigma' = Uninit
    /\ allocated' = FALSE /\ outputL' = Uninit /\ outputFeedforward' = Uninit
    /\ dstL' = 0 /\ dstFeedforward' = 0
    /\ writeLog' = << >>
    /\ UNCHANGED << inputs, err >>

Next ==
    \/ Alloc
    \/ AllocFail
    \/ InitValueFunction
    \/ StageBegin
    \/ Intermediate
    \/ UpdateMode
    \/ Resolve

Spec == Init /\ [][Next]_vars
SpecAnyShape == InitAnyShape /\ [][Next]_vars

\* ------------------------------------------------------------------ claims
\* C1: with inputs that satisfy the preconditions, whatever numModes, n and p
\* are, no size or dimension error is raised: s1 is accumulated with n elements
\* and s2 with p elements, and a run that returns has filled every cell.
C1_NoDimensionError ==
    Precondition =>
        /\ pc = "error" => err = "Allocation of output array failed"
        /\ pc = "mix" => Len(S1Zero) = nA /\ Len(S2Zero) = pB
        /\ pc = "done" =>
              \A s \in 0..(horizonLength - 1), m \in 1..numModes :
                  outputL[s][m] # Uninit /\ outputFeedforward[s][m] # Uninit

\* C2: in every state where the value-function matrices exist (the terminal
\* state and the state after each update) every K_k[m] is symmetric.
C2_ValueFunctionSymmetric ==
    K_k # Uninit => \A m \in 1..Len(K_k) : IsSymmetric(K_k[m])

\* C3: inputs that violate a precondition are rejected with InvalidDimensions
\* before anything is computed: once the call has left its entry nothing is
\* allocated and nothing is written.  (A failed allocation is another error.)
C3_RejectedBeforeComputation ==
    (~Precondition /\ pc # "start" /\ err # "Allocation of output array failed") =>
        /\ pc = "error" /\ err = "InvalidDimensions"
        /\ ~allocated
        /\ writeLog = << >>

\* The state the first executed iteration (k = horizonLength - 1) reads.
AtTerminalState == pc = "stage" /\ k = horizonLength - 1

\* C4 as stated: the first iteration reads K = TerminalCost and sigma = column
\* N (from 0) of the reference weightings in every mode, also when the
\* reference weightings have more than N + 1 columns.
C4_TerminalColumnN ==
    AtTerminalState =>
        \A m \in 1..numModes :
            /\ K_k[m] = terminalK
            /\ ColAt(sigma_k, m - 1) = ColAt(refWeightings, horizonLength)

\* C4 amended: the first iteration reads K = TerminalCost and sigma = the LAST
\* column of the reference weightings in every mode; that is column N exactly
\* when the reference weightings have N + 1 columns.
C4_TerminalLastColumn ==
    AtTerminalState =>
        /\ \A m \in 1..numModes :
            /\ K_k[m] = terminalK
            /\ ColAt(sigma_k, m - 1) = ColAt(refWeightings, Cols(refWeightings) - 1)
        /\ Cols(refWeightings) = horizonLength + 1 =>
              \A m \in 1..numModes :
                  ColAt(sigma_k, m - 1) = ColAt(refWeightings, horizonLength)

C4_Witness ==
    /\ AtTerminalState
    /\ numModes >= 2
    /\ Cols(refWeightings) > horizonLength + 1
    /\ ColAt(sigma_k, 1) # ColAt(refWeightings, horizonLength)

\* The a-th write of a run: stages from the last one down, modes in order.
LogEntry(a) ==
    LET st == horizonLength - 1 - ((a - 1) \div numModes)
    IN  << st, st, ((a - 1) % numModes) + 1 >>

\* C5: every (stage, mode) cell of both output arrays is written at most once,
\* the iteration of stage k writes the stage-k slot only, the stages are
\* written from N-1 down to 0, the cells written are exactly those of the
\* writes made, and a run that returns has written every cell.
C5_WriteOnceBackward ==
    /\ \A a \in 1..Len(writeLog) :
          /\ writeLog[a] = LogEntry(a)
          /\ writeLog[a][1] \in 0..(horizonLength - 1)
    /\ \A a, b \in 1..Len(writeLog) :
          /\ a # b => << writeLog[a][1], writeLog[a][3] >> # << writeLog[b][1], writeLog[b][3] >>
          /\ a < b => writeLog[a][1] >= writeLog[b][1]
    /\ pc = "mix" =>
          /\ dstL = k * LStride /\ dstFeedforward = k * FStride
          /\ SlotL = k /\ SlotF = k
    /\ allocated =>
          \A s \in 0..(horizonLength - 1), m \in 1..numModes :
              LET logged == \E a \in 1..Len(writeLog) : writeLog[a] = << s, s, m >>
              IN  /\ (outputL[s][m] # Uninit) <=> logged
                  /\ (outputFeedforward[s][m] # Uninit) <=> logged
    /\ pc = "done" => Len(writeLog) = horizonLength * numModes

C5_Witness ==
    /\ pc = "done"
    /\ horizonLength >= 2
    /\ numModes >= 2
    /\ Len(writeLog) = horizonLength * numModes

Average(X) == MatScale(RNorm(1, 2), MatAdd(X, Transpose(X)))

\* C7: the symmetrization is the mean (X + X^T)/2: the intermediates are
\* Q + mean(A^T K A) and R + mean(B^T K B), and the updated K of a mode is the
\* mean of the whole difference P1 - P2^T pinv(P3) P2.
C7_SymmetrizationIsAveraging ==
    pc = "mix" =>
        /\ \A m \in 1..numModes :
            /\ QAKA[m] = MatAdd(augQ[m],
                   Average(MatMul(MatMul(Transpose(augA[m]), K_prev[m]), augA[m])))
            /\ RBKB[m] = MatAdd(augR[m],
                   Average(MatMul(MatMul(Transpose(augB[m]), K_prev[m]), augB[m])))
        /\ \A m \in 1..j :
            K_k[m] = Average(MatSub(MixP1(m),
                         MatMul(MatMul(Transpose(MixP2(m)), pinv(MixP3(m))), MixP2(m))))

\* The modes whose update of the current stage has been made, and that stage;
\* the intermediates of the stage stay in place until the next stage begins.
ModesDone ==
    IF pc = "mix" THEN 1..j
    ELSE IF pc \in {"stage", "done"} /\ QAKA # Uninit THEN 1..numModes
    ELSE {}
StageDone == IF pc = "mix" THEN k ELSE k + 1

\* C8: when the mixed control-cost matrix P3 of a mode is the zero matrix, the
\* update of that mode is made without an error and gives gain 0, feedforward
\* 0, K = P1 and sigma = column k of the reference weightings + s1.
C8_ZeroControlCost ==
    \A m \in ModesDone :
        MixP3(m) = ZeroMat(pR, pR) =>
            /\ outputL[StageDone][m] = ZeroMat(pR, nA)
            /\ outputFeedforward[StageDone][m] = ZeroVec(pR)
            /\ K_k[m] = MixP1(m)
            /\ ColAt(sigma_k, m - 1) = VecAdd(ColAt(refWeightings, StageDone), MixS1(m))

C8_Witness ==
    /\ pc \in {"stage", "done"}
    /\ \E m \in ModesDone :
          /\ MixP3(m) = ZeroMat(pR, pR)
          /\ MixP2(m) # ZeroMat(pB, nA)
          /\ outputL[StageDone][m] = ZeroMat(pR, nA)

\* The scalar example: A = B = Q = R = TerminalCost = 1, one mode, N = 2.
ScalarExample ==
    /\ augA = << << << ROne >> >> >> /\ augB = << << << ROne >> >> >>
    /\ augQ = << << << ROne >> >> >> /\ augR = << << << ROne >> >> >>
    /\ transitionMatrix = << << ROne >> >>
    /\ terminalK = << << ROne >> >>
    /\ horizonLength = 2

\* C9: with one mode and transition matrix [1], a stage is the step of the
\* standard Riccati recursion from the next-stage K:
\* L = -pinv(R + B^T K B) B^T K A and
\* K = Q + A^T K A - (B^T K A)^T pinv(R + B^T K B) (B^T K A);
\* in the scalar example L[1] = -1/2, K after stage 1 is 3/2 and L[0] = -3/5.
C9_SingleModeRiccati ==
    /\ (numModes = 1 /\ transitionMatrix = << << ROne >> >>
            /\ pc \in {"stage", "done"} /\ K_prev # Uninit) =>
          LET A == augA[1]
              B == augB[1]
              Kn == K_prev[1]
              G == pinv(MatAdd(augR[1], MatMul(MatMul(Transpose(B), Kn), B)))
              H == MatMul(MatMul(Transpose(B), Kn), A)
          IN  /\ outputL[k + 1][1] = MatNeg(MatMul(G, H))
              /\ K_k[1] = MatSub(MatAdd(augQ[1], MatMul(MatMul(Transpose(A), Kn), A)),
                                 MatMul(MatMul(Transpose(H), G), H))
    /\ (ScalarExample /\ pc = "stage" /\ k = 0) =>
          /\ outputL[1][1] = << << RNorm(-1, 2) >> >>
          /\ K_k[1] = << << RNorm(3, 2) >> >>
    /\ (ScalarExample /\ pc = "done") =>
          /\ outputL[1][1] = << << RNorm(-1, 2) >> >>
          /\ outputL[0][1] = << << RNorm(-3, 5) >> >>

C9_Witness ==
    /\ ScalarExample
    /\ pc = "done"
    /\ outputL[0][1] = << << RNorm(-3, 5) >> >>

\* The results of a stage as functions of the snapshot (K_prev, sigma_prev)
\* and the inputs alone.
SnapQAKA(m) ==
    MatAdd(augQ[m], symmatu(MatMul(MatMul(Transpose(augA[m]), K_prev[m]), augA[m])))
SnapRBKB(m) ==
    MatAdd(augR[m], symmatu(MatMul(MatMul(Transpose(augB[m]), K_prev[m]), augB[m])))
SnapBKA(m) == MatMul(MatMul(Transpose(augB[m]), K_prev[m]), augA[m])
SnapAsigma(m) == MatVec(Transpose(augA[m]), ColAt(sigma_prev, m - 1))
SnapBsigma(m) == MatVec(Transpose(augB[m]), ColAt(sigma_prev, m - 1))
RECURSIVE SnapMixVec(_, _, _, _)
SnapMixVec(row, col(_), n, acc) ==
    IF n = 0 THEN acc
    ELSE VecAdd(SnapMixVec(row, col, n - 1, acc), VecScale(row[n], col(n)))
SnapP1(m) ==
    MixMat(transitionMatrix[m], Tup([x \in 1..numModes |-> SnapQAKA(x)]), numModes,
           ZeroMat(nA, nA))
SnapP2(m) ==
    MixMat(transitionMatrix[m], Tup([x \in 1..numModes |-> SnapBKA(x)]), numModes,
           ZeroMat(pB, nA))
SnapP3(m) ==
    MixMat(transitionMatrix[m], Tup([x \in 1..numModes |-> SnapRBKB(x)]), numModes,
           ZeroMat(pB, pB))
SnapS1(m) == SnapMixVec(transitionMatrix[m], SnapAsigma, numModes, ZeroVec(nA))
SnapS2(m) == SnapMixVec(transitionMatrix[m], SnapBsigma, numModes, ZeroVec(pB))
SnapK(m) ==
    MatSub(SnapP1(m),
           symmatu(MatMul(MatMul(Transpose(SnapP2(m)), pinv(SnapP3(m))), SnapP2(m))))
SnapSigma(m) ==
    VecSub(VecAdd(ColAt(refWeightings, k), SnapS1(m)),
           MatVec(MatMul(Transpose(SnapP2(m)), pinv(SnapP3(m))), SnapS2(m)))
SnapGain(m) == MatNeg(MatMul(pinv(SnapP3(m)), SnapP2(m)))
SnapFeedforward(m) == MatVec(pinv(SnapP3(m)), SnapS2(m))

C10_Step ==
    /\ pc = "stage" =>
          /\ K_prev' = K_k /\ sigma_prev' = sigma_k
          /\ UNCHANGED << K_k, sigma_k >>
    /\ pc = "inter" => UNCHANGED << K_k, sigma_k, K_prev, sigma_prev >>
    /\ (pc = "inter" /\ pc' = "mix") =>
          \A m \in 1..numModes :
              /\ QAKA'[m] = SnapQAKA(m) /\ RBKB'[m] = SnapRBKB(m) /\ BKA'[m] = SnapBKA(m)
              /\ ColAt(Asigma', m - 1) = SnapAsigma(m)
              /\ ColAt(Bsigma', m - 1) = SnapBsigma(m)
    /\ pc = "mix" =>
          /\ UNCHANGED << K_prev, sigma_prev, QAKA, RBKB, BKA, Asigma, Bsigma >>
          /\ pc' # "error" =>
                /\ K_k'[j + 1] = SnapK(j + 1)
                /\ ColAt(sigma_k', j) = SnapSigma(j + 1)
                /\ outputL'[k][j + 1] = SnapGain(j + 1)
                /\ outputFeedforward'[k][j + 1] = SnapFeedforward(j + 1)
                /\ \A m \in (1..numModes) \ {j + 1} :
                      /\ K_k'[m] = K_k[m]
                      /\ ColAt(sigma_k', m - 1) = ColAt(sigma_k, m - 1)

\* C10: a stage snapshots K and sigma of the next stage, computes every
\* intermediate of every mode from the snapshot before any update, and each
\* update of a mode leaves the snapshot, the intermediates and the other modes
\* alone and gives results that are functions of the snapshot only; the result
\* does not depend on the order in which the modes are updated.
C10_SnapshotDiscipline == [][C10_Step]_vars

C10_Witness ==
    /\ numModes >= 2
    /\ pc \in {"stage", "done"}
    /\ K_prev # Uninit
    /\ K_k[1] # K_prev[1]
    /\ transitionMatrix[2][1] # RZero
    /\ K_k[2] = SnapK(2)

====
